---- MODULE Spec2Model ----
(***************************************************************************)
(* LMS backend gateway (Express + Supabase): the authorization pipeline    *)
(* (verifyToken, requireAdmin, requireAdminOrInstructor, the ownership     *)
(* reads of the live-session handlers) and the create-instructor           *)
(* provisioning workflow.                                                  *)
(*                                                                         *)
(* Every `await` of the source is a suspension point.  One action of the   *)
(* model is one remote call taking effect at its service together with     *)
(* the continuation of the awaiting function up to its next `await`        *)
(* (next() runs the following middleware synchronously, so its             *)
(* synchronous prefix belongs to the same action).  Requests in different  *)
(* slots interleave at these points.                                       *)
(*                                                                         *)
(* Remote calls resolve to the supabase-js result shape {data, error}; an  *)
(* "error" outcome leaves the service unchanged.  deleteUser, whose result *)
(* the handler never inspects, may in addition reject ("raise").           *)
(*                                                                         *)
(* Three specifications share the actions and differ in the requests the   *)
(* clients send: Spec sends requests to every route, SpecProvisioning      *)
(* create-instructor requests with every body, SpecLiveSessions requests   *)
(* to the live-session routes with every :id and body.  The two families   *)
(* touch disjoint tables, so neither loses an interleaving that matters.   *)
(* SpecCourses is the admin-only routes of the second server file that     *)
(* read or write one course (GET, PUT and DELETE /api/courses/:id and      *)
(* POST /api/courses), behind its verifyToken and requireAdmin.            *)
(***************************************************************************)
EXTENDS Naturals, Integers, Sequences, FiniteSets, TLC

VARIABLES
    identities,   \* identity service: identity id -> email
    profiles,     \* data service, table profiles: id -> [name, email, role]
    sessions,     \* data service, table live_sessions: id -> [title, instructor_id]
    provisioned,  \* ids of the profile rows inserted by POST /api/instructors
    nextUid,      \* identity service: the id the next created identity gets
    nextSid,      \* data service: the id the next inserted live session gets
    courses,      \* data service, table courses: id -> row (column -> value)
    nextCid,      \* data service: the id the next inserted course gets
    reqs,         \* request slot -> the request's context (req/res and locals)
    served        \* number of requests received so far

vars == <<identities, profiles, sessions, provisioned, nextUid, nextSid,
          courses, nextCid, reqs, served>>

(* ---------------------------- bounds ----------------------------------- *)

\* total number of requests the gateway receives in one behaviour
MaxRequests == 2

\* request slots: requests that can be in flight at the same time
Slots == {"r1", "r2"}

(* ---------------------------- values ----------------------------------- *)

\* JavaScript undefined / null: for an identifier, and for an absent field
NoId == 0
NoField == "<absent>"

\* a function with an empty domain: a request without a JSON body
EmptyBody == [f \in {} |-> NoField]

\* JavaScript truthiness of body[f] (undefined and "" are falsy), per type:
\* text fields are strings, the email is a sequence of characters
TruthyStr(body, f) == f \in DOMAIN body /\ body[f] # ""
TruthySeq(body, f) == f \in DOMAIN body /\ body[f] # <<>>

\* body.instructor_id, undefined when the body does not carry it
BodyId(body, f) == IF f \in DOMAIN body THEN body[f] ELSE NoId

\* toLowerCase leaving the string as it is
toLowerCase_Identity(s) == s

(* A string that the code transforms is held as the sequence of its        *)
(* characters, each a one-character string; a character outside ASCII is   *)
(* held as its JSON escape.  The alphabet is ASCII and the white space     *)
(* below: cased letters outside ASCII do not occur.                        *)
UpperCase ==
    <<"A", "B", "C", "D", "E", "F", "G", "H", "I", "J", "K", "L", "M",
      "N", "O", "P", "Q", "R", "S", "T", "U", "V", "W", "X", "Y", "Z">>

LowerCase ==
    <<"a", "b", "c", "d", "e", "f", "g", "h", "i", "j", "k", "l", "m",
      "n", "o", "p", "q", "r", "s", "t", "u", "v", "w", "x", "y", "z">>

(* String.prototype.toLowerCase, one character *)
LowerChar(c) ==
    IF \E i \in 1..Len(UpperCase) : UpperCase[i] = c
    THEN LowerCase[CHOOSE i \in 1..Len(UpperCase) : UpperCase[i] = c]
    ELSE c

toLowerCase(s) == [i \in 1..Len(s) |-> LowerChar(s[i])]

\* the characters String.prototype.trim removes: WhiteSpace and
\* LineTerminator of ECMAScript
WhiteSpace ==
    {" ", "\t", "\n", "\f", "\r", "\\u000b", "\\u00a0", "\\u1680",
     "\\u2000", "\\u2001", "\\u2002", "\\u2003", "\\u2004", "\\u2005",
     "\\u2006", "\\u2007", "\\u2008", "\\u2009", "\\u200a", "\\u2028",
     "\\u2029", "\\u202f", "\\u205f", "\\u3000", "\\ufeff"}

(* String.prototype.trim: drops leading and trailing white space *)
RECURSIVE TrimStart(_)
TrimStart(s) ==
    IF s # <<>> /\ Head(s) \in WhiteSpace THEN TrimStart(Tail(s)) ELSE s

RECURSIVE TrimEnd(_)
TrimEnd(s) ==
    IF s # <<>> /\ s[Len(s)] \in WhiteSpace
    THEN TrimEnd(SubSeq(s, 1, Len(s) - 1)) ELSE s

trim(s) == TrimEnd(TrimStart(s))

(* ---------------------------- routes ----------------------------------- *)

AdminRoutes ==
    {"GET /api/users", "GET /api/instructors", "POST /api/instructors",
     "GET /api/courses"}

LiveSessionRoutes ==
    {"GET /api/live-sessions", "POST /api/live-sessions",
     "PUT /api/live-sessions/:id", "DELETE /api/live-sessions/:id"}

Routes == {"GET /api/health"} \cup AdminRoutes \cup LiveSessionRoutes

\* the course routes of the second server file, registered with requireAdmin
CourseRoutes ==
    {"GET /api/courses/:id", "POST /api/courses",
     "PUT /api/courses/:id", "DELETE /api/courses/:id"}

\* Chain with PUT /api/live-sessions/:id registered without its role middleware
Chain_PutWithoutRoleGate(route) ==
    IF route = "GET /api/health" THEN <<"handler">>
    ELSE IF route = "PUT /api/live-sessions/:id" THEN <<"verifyToken", "handler">>
    ELSE IF route \in AdminRoutes \cup CourseRoutes
    THEN <<"verifyToken", "requireAdmin", "handler">>
    ELSE <<"verifyToken", "requireAdminOrInstructor", "handler">>

\* the middleware chain each route is registered with
Chain(route) ==
    IF route = "GET /api/health" THEN <<"handler">>
    ELSE IF route \in AdminRoutes \cup CourseRoutes
    THEN <<"verifyToken", "requireAdmin", "handler">>
    ELSE <<"verifyToken", "requireAdminOrInstructor", "handler">>

(* ---------------------------- request context -------------------------- *)

IdleReq ==
    [route |-> "none", header |-> <<>>, id |-> NoId, body |-> EmptyBody,
     stage |-> 0, pc |-> "idle",
     token |-> NoId, user |-> NoId, roleData |-> NoField, userRole |-> NoField,
     ownerData |-> NoId,
     normalizedEmail |-> <<>>, userId |-> NoId, finalInstructorId |-> NoId,
     profileError |-> FALSE, deleteArg |-> NoId, deleteResult |-> NoField,
     errorCode |-> NoField,
     status |-> 0, error |-> NoField, message |-> NoField, resUserId |-> NoId,
     resStatus |-> NoField,
     data |-> EmptyBody, responses |-> 0,
     trace |-> <<>>]

NewReq(route, header, id, body) ==
    [IdleReq EXCEPT !.route = route, !.header = header, !.id = id,
                    !.body = body, !.pc = "start"]

\* res.status(status).json({error, message}); the function returns
Respond(q, status, error, message) ==
    [q EXCEPT !.pc = "done", !.status = status, !.error = error,
              !.message = message, !.responses = @ + 1,
              !.trace = Append(@, "respond")]

\* a remote call of the request has taken effect at its service
Called(q, call) == [q EXCEPT !.trace = Append(@, call)]

\* throw err inside asyncHandler: .catch(next) hands it to the global error
\* handler, which answers 500 with err.message || "Something went wrong"
ErrorHandler(q, err) ==
    Respond(q, 500, "Internal Server Error",
            IF err # "" THEN err ELSE "Something went wrong")

(* ---------------------------- handlers --------------------------------- *)
(* The synchronous prefix of each route handler, run by next() of the last *)
(* middleware of the chain.                                                *)

\* GET /api/health: res.status(200).json({status: "OK", message}); the
\* message begins with U+1F680, held as its JSON escape
healthHandler(q) ==
    Respond([q EXCEPT !.resStatus = "OK"], 200, NoField,
            "\\ud83d\\ude80 LMS Backend API running")

\* instructorsPostStart validating the email only
instructorsPostStart_EmailOnly(q) ==
    IF ~TruthySeq(q.body, "email")
    THEN Respond(q, 400, "Validation Error", "Name and email are required")
    ELSE [q EXCEPT !.normalizedEmail = trim(toLowerCase(q.body.email)),
                   !.pc = "createUser"]

\* POST /api/instructors up to its first await
instructorsPostStart(q) ==
    IF ~TruthyStr(q.body, "name") \/ ~TruthySeq(q.body, "email")
    THEN Respond(q, 400, "Validation Error", "Name and email are required")
    ELSE [q EXCEPT !.normalizedEmail = trim(toLowerCase(q.body.email)),
                   !.pc = "createUser"]

\* POST /api/live-sessions up to its first await
liveSessionsPostStart(q) ==
    LET finalInstructorId ==
            IF q.userRole = "instructor" THEN q.user
            ELSE BodyId(q.body, "instructor_id")
    IN  IF \/ ~TruthyStr(q.body, "title")
           \/ ~TruthyStr(q.body, "course")
           \/ ~TruthyStr(q.body, "start_time")
        THEN Respond(q, 400, "Validation Error",
                     "title, course, start_time required")
        ELSE IF finalInstructorId = NoId
        THEN Respond(q, 400, "Instructor required", NoField)
        ELSE [q EXCEPT !.finalInstructorId = finalInstructorId,
                       !.pc = "live_sessions.insert"]

\* liveSessionsPutStart running the ownership read for every role
liveSessionsPutStart_AlwaysOwner(q) == [q EXCEPT !.pc = "put.owner"]

\* PUT /api/live-sessions/:id up to its first await
liveSessionsPutStart(q) ==
    IF q.userRole = "instructor"
    THEN [q EXCEPT !.pc = "put.owner"]
    ELSE [q EXCEPT !.pc = "put.update"]

\* DELETE /api/live-sessions/:id up to its first await
liveSessionsDeleteStart(q) ==
    IF q.userRole = "instructor"
    THEN [q EXCEPT !.pc = "delete.owner"]
    ELSE [q EXCEPT !.pc = "delete.delete"]

\* POST /api/courses up to its first await
coursesPostStart(q) ==
    IF \/ ~TruthyStr(q.body, "title")
       \/ ~TruthyStr(q.body, "short_desc")
       \/ BodyId(q.body, "instructor_id") = NoId
    THEN Respond(q, 400, "Validation Error",
                 "title, short_desc, instructor_id required")
    ELSE [q EXCEPT !.pc = "courses.insert"]

HandlerStart(q) ==
    CASE q.route = "GET /api/health"                -> healthHandler(q)
      [] q.route = "GET /api/users"                 -> [q EXCEPT !.pc = "users.select"]
      [] q.route = "GET /api/instructors"           -> [q EXCEPT !.pc = "instructors.select"]
      [] q.route = "POST /api/instructors"          -> instructorsPostStart(q)
      [] q.route = "GET /api/courses"               -> [q EXCEPT !.pc = "courses.select"]
      [] q.route = "GET /api/live-sessions"         -> [q EXCEPT !.pc = "live_sessions.select"]
      [] q.route = "POST /api/live-sessions"        -> liveSessionsPostStart(q)
      [] q.route = "PUT /api/live-sessions/:id"     -> liveSessionsPutStart(q)
      [] q.route = "DELETE /api/live-sessions/:id"  -> liveSessionsDeleteStart(q)
      [] q.route = "GET /api/courses/:id"           -> [q EXCEPT !.pc = "courses.select_one"]
      [] q.route = "POST /api/courses"              -> coursesPostStart(q)
      [] q.route = "PUT /api/courses/:id"           -> [q EXCEPT !.pc = "courses.update"]
      [] q.route = "DELETE /api/courses/:id"        -> [q EXCEPT !.pc = "courses.delete"]

(* ---------------------------- middleware ------------------------------- *)

\* authHeader.startsWith("Bearer "), the header held as its words
startsWithBearer(header) == Len(header) >= 2 /\ header[1] = "Bearer"

\* verifyToken up to its await of supabase.auth.getUser(token)
verifyTokenStart(q) ==
    IF q.header = <<>> \/ ~startsWithBearer(q.header)
    THEN Respond(q, 401, "Unauthorized",
                 "Missing or invalid Authorization header")
    ELSE [q EXCEPT !.token = q.header[2], !.pc = "getUser"]

\* Express dispatch and next(): the synchronous prefix of the next stage of
\* the route's chain
Enter(q) ==
    LET n  == q.stage + 1
        mw == Chain(q.route)[n]
        q1 == [q EXCEPT !.stage = n]
    IN  CASE mw = "verifyToken"              -> verifyTokenStart(q1)
          [] mw = "requireAdmin"             -> [q1 EXCEPT !.pc = "requireAdmin"]
          [] mw = "requireAdminOrInstructor" -> [q1 EXCEPT !.pc = "requireAdminOrInstructor"]
          [] mw = "handler"                  -> HandlerStart(q1)

\* verifyTokenResume testing only error, not the missing user
verifyTokenResume_ErrorOnly(q, res) ==
    IF res.error
    THEN Respond(q, 401, "Unauthorized", "Invalid or expired token")
    ELSE Enter([q EXCEPT !.user = res.user])

\* verifyToken after getUser resolved to {data: {user}, error}
verifyTokenResume(q, res) ==
    IF res.error \/ res.user = NoId
    THEN Respond(q, 401, "Unauthorized", "Invalid or expired token")
    ELSE Enter([q EXCEPT !.user = res.user])

\* requireAdminResume denying the known non-admin roles instead of allowing admin
requireAdminResume_DenyList(q, res) ==
    LET q1 == [q EXCEPT !.roleData = res.data]
    IN  IF res.data = "instructor" \/ res.data = "student"
        THEN Respond(q1, 403, "Forbidden", "Admin access required")
        ELSE Enter([q1 EXCEPT !.userRole = "admin"])

\* requireAdmin after the profile select resolved to {data, error}; the
\* requireAdmin of the second server file, which guards the course routes,
\* is the same but for req.userRole, which it does not assign
requireAdminResume(q, res) ==
    LET q1 == [q EXCEPT !.roleData = res.data]
    IN  IF res.error \/ res.data = NoField \/ res.data # "admin"
        THEN Respond(q1, 403, "Forbidden", "Admin access required")
        ELSE IF q.route \in CourseRoutes THEN Enter(q1)
        ELSE Enter([q1 EXCEPT !.userRole = res.data])

\* requireAdminOrInstructor after the profile select resolved
requireAdminOrInstructorResume(q, res) ==
    LET q1 == [q EXCEPT !.roleData = res.data]
    IN  IF res.error \/ res.data = NoField
        THEN Respond(q1, 403, "Forbidden", "Access denied")
        ELSE IF res.data # "admin" /\ res.data # "instructor"
        THEN Respond(q1, 403, "Forbidden", "Admin or Instructor access required")
        ELSE Enter([q1 EXCEPT !.userRole = res.data])

(* ---------------------------- handler continuations -------------------- *)

\* the read handlers (GET users, instructors, courses, live-sessions) after
\* their query resolved: if (error) throw error; res.status(200).json(data)
selectResume(q, error) ==
    IF error THEN ErrorHandler(q, "queryError")
    ELSE Respond(q, 200, NoField, NoField)

\* POST /api/instructors after createUser resolved to {data: {user}, error}
createUserResume(q, res) ==
    IF res.error THEN ErrorHandler(q, "authError")
    ELSE [q EXCEPT !.userId = res.user, !.pc = "profiles.insert"]

\* insertProfileResume rethrowing the insert error without compensation
insertProfileResume_NoCompensation(q, profileError) ==
    IF profileError
    THEN ErrorHandler([q EXCEPT !.profileError = TRUE], "profileError")
    ELSE Respond(q, 201, NoField, "Instructor created successfully")

\* insertProfileResume with the test inverted: compensates after a success
insertProfileResume_Inverted(q, profileError) ==
    IF ~profileError
    THEN [q EXCEPT !.deleteArg = q.userId, !.pc = "deleteUser"]
    ELSE ErrorHandler([q EXCEPT !.profileError = TRUE], "profileError")

\* POST /api/instructors after the profile insert resolved to {error}; the
\* 201 body is {success, message, userId}
insertProfileResume(q, profileError) ==
    IF profileError
    THEN [q EXCEPT !.profileError = TRUE, !.deleteArg = q.userId,
                   !.pc = "deleteUser"]
    ELSE Respond([q EXCEPT !.resUserId = q.userId], 201, NoField,
                 "Instructor created successfully")

\* deleteUserResume in a handler not wrapped by asyncHandler: the rejection of
\* deleteUser is not handed to the error handler and nothing answers
deleteUserResume_Unhandled(q, outcome) ==
    LET q1 == [q EXCEPT !.deleteResult = outcome]
    IN  IF outcome = "raise" THEN [q1 EXCEPT !.pc = "rejected"]
        ELSE ErrorHandler(q1, "profileError")

\* POST /api/instructors after the await of deleteUser settled: a rejection
\* propagates out of the handler, otherwise throw profileError is reached
deleteUserResume(q, outcome) ==
    LET q1 == [q EXCEPT !.deleteResult = outcome]
    IN  IF outcome = "raise" THEN ErrorHandler(q1, "deleteError")
        ELSE ErrorHandler(q1, "profileError")

\* POST /api/live-sessions after the insert resolved
insertSessionResume(q, error) ==
    IF error THEN ErrorHandler(q, "queryError")
    ELSE Respond(q, 201, NoField, NoField)

\* putOwnerResume with && for ||: a missing session passes the gate
putOwnerResume_MissingPasses(q, data) ==
    LET q1 == [q EXCEPT !.ownerData = data]
    IN  IF data # NoId /\ data # q.user
        THEN Respond(q1, 403, "Forbidden", "You can only edit your own sessions")
        ELSE [q1 EXCEPT !.pc = "put.update"]

\* PUT /api/live-sessions/:id after the ownership select resolved to {data}
putOwnerResume(q, data) ==
    LET q1 == [q EXCEPT !.ownerData = data]
    IN  IF data = NoId \/ data # q.user
        THEN Respond(q1, 403, "Forbidden", "You can only edit your own sessions")
        ELSE [q1 EXCEPT !.pc = "put.update"]

\* PUT /api/live-sessions/:id after the update resolved
putUpdateResume(q, error) ==
    IF error THEN ErrorHandler(q, "queryError")
    ELSE Respond(q, 200, NoField, NoField)

\* DELETE /api/live-sessions/:id after the ownership select resolved
deleteOwnerResume(q, data) ==
    LET q1 == [q EXCEPT !.ownerData = data]
    IN  IF data = NoId \/ data # q.user
        THEN Respond(q1, 403, "Forbidden", "You can only delete your own sessions")
        ELSE [q1 EXCEPT !.pc = "delete.delete"]

\* DELETE /api/live-sessions/:id after the delete resolved
deleteResume(q, error) ==
    IF error THEN ErrorHandler(q, "queryError")
    ELSE Respond(q, 200, NoField, "Live session deleted successfully")

\* courseGetResume rethrowing every error of the select
courseGetResume_ThrowAll(q, res) ==
    LET q1 == [q EXCEPT !.errorCode = res.code]
    IN  IF res.code # NoField THEN ErrorHandler(q1, "queryError")
        ELSE Respond([q1 EXCEPT !.data = res.data], 200, NoField, NoField)

\* GET /api/courses/:id after select(...).eq("id", id).single() resolved to
\* {data, error}: the no-row error code is answered 404, any other is thrown
courseGetResume(q, res) ==
    LET q1 == [q EXCEPT !.errorCode = res.code]
    IN  IF res.code # NoField
        THEN IF res.code = "PGRST116"
             THEN Respond(q1, 404, "Not Found", "Course not found")
             ELSE ErrorHandler(q1, "queryError")
        ELSE Respond([q1 EXCEPT !.data = res.data], 200, NoField, NoField)

\* POST /api/courses after insert(...).select().single() resolved: the 201
\* body is the inserted row
courseInsertResume(q, res) ==
    IF res.code # NoField THEN ErrorHandler(q, "queryError")
    ELSE Respond([q EXCEPT !.data = res.data], 201, NoField, NoField)

\* PUT /api/courses/:id after update(req.body).eq("id", id).select().single()
\* resolved: if (error) throw error; the 200 body is the updated row
courseUpdateResume(q, res) ==
    LET q1 == [q EXCEPT !.errorCode = res.code]
    IN  IF res.code # NoField THEN ErrorHandler(q1, "queryError")
        ELSE Respond([q1 EXCEPT !.data = res.data], 200, NoField, NoField)

\* DELETE /api/courses/:id after delete().eq("id", id) resolved
courseDeleteResume(q, error) ==
    IF error THEN ErrorHandler(q, "queryError")
    ELSE Respond(q, 200, NoField, "Course deleted successfully")

(* ---------------------------- services --------------------------------- *)

\* supabase.auth.getUser(token): a token names the identity it was issued to
getUser(token, fail) ==
    IF fail THEN [user |-> NoId, error |-> TRUE]
    ELSE IF token \in DOMAIN identities THEN [user |-> token, error |-> FALSE]
    ELSE [user |-> NoId, error |-> FALSE]

\* selectRole answering from a cache filled at start-up: the role the
\* identity had then
selectRole_Cached(id, fail) ==
    IF fail \/ id \notin DOMAIN profiles
    THEN [data |-> NoField, error |-> TRUE]
    ELSE [data |-> CASE id = 1 -> "admin"
                     [] id \in {2, 3} -> "instructor"
                     [] id = 4 -> "student"
                     [] OTHER -> profiles[id].role,
          error |-> FALSE]

\* from("profiles").select("role").eq("id", id).single(): no row is an error
selectRole(id, fail) ==
    IF fail \/ id \notin DOMAIN profiles
    THEN [data |-> NoField, error |-> TRUE]
    ELSE [data |-> profiles[id].role, error |-> FALSE]

\* from("live_sessions").select("instructor_id").eq("id", id).single(): data
selectOwner(id, fail) ==
    IF fail \/ id \notin DOMAIN sessions THEN NoId
    ELSE sessions[id].instructor_id

\* supabase.auth.admin.createUser({email}): an email registers once
createUser(email, fail) ==
    IF fail \/ (\E i \in DOMAIN identities : identities[i] = email)
    THEN [user |-> NoId, error |-> TRUE]
    ELSE [user |-> nextUid, error |-> FALSE]

\* the profile row built from the whole request body: a caller-supplied role
\* is stored
profileRow_BodySpread(q) ==
    [name |-> q.body.name, email |-> q.normalizedEmail,
     role |-> IF "role" \in DOMAIN q.body THEN q.body.role ELSE "instructor"]

\* POST /api/instructors: the row handed to from("profiles").insert; id is
\* the key it is stored under
profileRow(q) ==
    [name |-> q.body.name, email |-> q.normalizedEmail, role |-> "instructor"]

\* the embedded resource profiles:instructor_id ( id, name ) of a course
\* row: the instructor's profile, null (here empty) when there is none
Instructor(row) ==
    IF row.instructor_id \in DOMAIN profiles
    THEN [id |-> row.instructor_id, name |-> profiles[row.instructor_id].name]
    ELSE EmptyBody

\* from("courses").select(`*, profiles:instructor_id ( id, name )`)
\* .eq("id", id).single(): the row with its embedded instructor; no row is
\* the error PGRST116, any other failure another error
selectCourse(id, fail) ==
    IF fail THEN [data |-> EmptyBody, code |-> "other"]
    ELSE IF id \notin DOMAIN courses THEN [data |-> EmptyBody, code |-> "PGRST116"]
    ELSE [data |-> [f \in DOMAIN courses[id] \cup {"profiles"} |->
                       IF f = "profiles" THEN Instructor(courses[id])
                       ELSE courses[id][f]],
          code |-> NoField]

\* const { title, short_desc, instructor_id, ...rest } = req.body
Rest(body) ==
    [f \in DOMAIN body \ {"title", "short_desc", "instructor_id"} |-> body[f]]

\* an object literal ending in a spread: { ...base, ...rest }
Spread(base, rest) ==
    [f \in DOMAIN base \cup DOMAIN rest |->
        IF f \in DOMAIN rest THEN rest[f] ELSE base[f]]

\* courseRow with the default written after the spread:
\* { title, short_desc, instructor_id, ...rest, status: rest.status || "draft" }
courseRow_DefaultLast(body) ==
    Spread(Spread([title |-> body.title, short_desc |-> body.short_desc,
                   instructor_id |-> body.instructor_id],
                  Rest(body)),
           [status |-> IF TruthyStr(Rest(body), "status")
                       THEN Rest(body).status ELSE "draft"])

\* POST /api/courses: the object handed to from("courses").insert,
\* { title, short_desc, instructor_id, status: rest.status || "draft", ...rest }
courseRow(body) ==
    Spread([title |-> body.title, short_desc |-> body.short_desc,
            instructor_id |-> body.instructor_id,
            status |-> IF TruthyStr(Rest(body), "status")
                       THEN Rest(body).status ELSE "draft"],
           Rest(body))

\* insert(row).select().single(): the stored row, with the id it was given
insertCourse(row, fail) ==
    IF fail THEN [data |-> EmptyBody, code |-> "other"]
    ELSE [data |-> Spread(row, [id |-> nextCid]), code |-> NoField]

\* from("courses").update(body).eq("id", id).select().single(): the row
\* with the body's columns set; no row is the error PGRST116
updateCourse(id, body, fail) ==
    IF fail THEN [data |-> EmptyBody, code |-> "other"]
    ELSE IF id \notin DOMAIN courses THEN [data |-> EmptyBody, code |-> "PGRST116"]
    ELSE [data |-> Spread(courses[id], body), code |-> NoField]

\* update(req.body): the row with the body's columns overwritten
Merge(row, body) ==
    [f \in DOMAIN row |-> IF f \in DOMAIN body THEN body[f] ELSE row[f]]

\* g without the row of key k
Without(g, k) == [x \in DOMAIN g \ {k} |-> g[x]]

\* g with the row of key k set to v
With(g, k, v) == [x \in DOMAIN g \cup {k} |-> IF x = k THEN v ELSE g[x]]

(* ---------------------------- inputs ----------------------------------- *)

\* Authorization headers: absent, another scheme, a bearer token of each
\* known identity, a bearer token no identity owns
Headers ==
    {<<>>, <<"Basic", 1>>, <<"Bearer", 99>>} \cup {<<"Bearer", u>> : u \in 1..5}

InstructorBodies ==
    {[name |-> "Ana", email |-> <<"A", " ">>],
     [name |-> "Ana", email |-> <<"c">>, role |-> "admin"],
     [name |-> "Ana", email |-> <<" ", "C">>],
     [name |-> "Ana", email |-> <<"\t", "Z", "9", "\n">>],
     [name |-> "Ana", email |-> <<" ">>],
     [name |-> "Ana"],
     [name |-> "", email |-> <<"c">>]}

LiveSessionBodies ==
    {[title |-> "t1", course |-> "c", start_time |-> "9"],
     [title |-> "t1", course |-> "c", start_time |-> "9", instructor_id |-> 3],
     [course |-> "c", start_time |-> "9", instructor_id |-> 3]}

UpdateBodies == {[title |-> "t1"], [instructor_id |-> 3]}

SessionIds == {1, 2}

CourseBodies ==
    {[title |-> "t", short_desc |-> "s", instructor_id |-> 2],
     [title |-> "t", short_desc |-> "s", instructor_id |-> 2,
      status |-> "published"],
     [title |-> "t", short_desc |-> "s", instructor_id |-> 2,
      status |-> "", level |-> "easy"],
     [title |-> "t", instructor_id |-> 2, status |-> "published"]}

CourseIds == {1, 2}

CourseUpdateBodies == {[title |-> "t2", instructor_id |-> 3]}

\* what a client sends besides the header: << route, :id, body >>
ProvisioningForms == {"POST /api/instructors"} \X {NoId} \X InstructorBodies

LiveSessionForms ==
    ({"GET /api/live-sessions"} \X {NoId} \X {EmptyBody})
    \cup ({"POST /api/live-sessions"} \X {NoId} \X LiveSessionBodies)
    \cup ({"PUT /api/live-sessions/:id"} \X SessionIds \X UpdateBodies)
    \cup ({"DELETE /api/live-sessions/:id"} \X SessionIds \X {EmptyBody})

CourseForms ==
    ({"GET /api/courses/:id"} \X CourseIds \X {EmptyBody})
    \cup ({"POST /api/courses"} \X {NoId} \X CourseBodies)
    \cup ({"PUT /api/courses/:id"} \X {1} \X CourseUpdateBodies)
    \cup ({"DELETE /api/courses/:id"} \X {1} \X {EmptyBody})

\* every route once with a body its handler accepts; the two POST routes
\* also with a body their validation rejects
AllRouteForms ==
    ((Routes \ (LiveSessionRoutes \cup {"POST /api/instructors"}))
        \X {NoId} \X {EmptyBody})
    \cup ({"POST /api/instructors"} \X {NoId} \X
             {[name |-> "Ana", email |-> <<"c">>, role |-> "admin"], [name |-> "Ana"]})
    \cup ({"GET /api/live-sessions"} \X {NoId} \X {EmptyBody})
    \cup ({"POST /api/live-sessions"} \X {NoId} \X
             {[title |-> "t1", course |-> "c", start_time |-> "9", instructor_id |-> 3],
              [course |-> "c", start_time |-> "9", instructor_id |-> 3]})
    \cup ({"PUT /api/live-sessions/:id"} \X {1} \X {[title |-> "t1"]})
    \cup ({"DELETE /api/live-sessions/:id"} \X {1} \X {EmptyBody})

(* ---------------------------- initial state ---------------------------- *)
(* Identities 1..5 exist; 1 is an admin, 2 and 3 are instructors, 4 is a   *)
(* student and 5 has no profile row.  Instructor 2 owns live session 1.    *)

Init ==
    /\ identities = [u \in 1..5 |->
                        CASE u = 1 -> <<"a">>
                          [] u = 2 -> <<"b">>
                          [] u = 3 -> <<"d">>
                          [] u = 4 -> <<"e">>
                          [] u = 5 -> <<"f">>]
    /\ profiles = [u \in 1..4 |->
                        [name |-> "user", email |-> identities[u],
                         role |-> CASE u = 1 -> "admin"
                                    [] u = 2 -> "instructor"
                                    [] u = 3 -> "instructor"
                                    [] u = 4 -> "student"]]
    /\ sessions = [x \in {1} |->
                        [title |-> "t0", course |-> "c", start_time |-> "9",
                         status |-> "upcoming", instructor_id |-> 2]]
    /\ provisioned = {}
    /\ nextUid = 6
    /\ nextSid = 2
    /\ courses = [x \in {} |-> EmptyBody]
    /\ nextCid = 1
    /\ reqs = [r \in Slots |-> IdleReq]
    /\ served = 0

(* ---------------------------- actions ---------------------------------- *)

\* a slot that holds no request in flight
Free(r) == reqs[r].pc \in {"idle", "done"}

\* a request drawn from forms, with an Authorization header drawn from
\* headers, arrives and runs to its first await; slots are interchangeable,
\* so it takes the first free one
DispatchFrom(r, forms, headers) ==
    /\ Free(r)
    /\ r = "r2" => ~Free("r1")
    /\ served < MaxRequests
    /\ \E form \in forms, header \in headers :
         reqs' = [reqs EXCEPT ![r] =
                    Enter(NewReq(form[1], header, form[2], form[3]))]
    /\ served' = served + 1
    /\ UNCHANGED <<identities, profiles, sessions, provisioned, nextUid, nextSid, courses, nextCid>>

\* a request drawn from forms with any header
Dispatch(r, forms) == DispatchFrom(r, forms, Headers)

\* a request on any route
Receive(r) == Dispatch(r, AllRouteForms)

\* a create-instructor request, with any body
ReceiveProvisioning(r) == Dispatch(r, ProvisioningForms)

\* a live-session request, with any :id and body
ReceiveLiveSession(r) == Dispatch(r, LiveSessionForms)

\* a create-instructor request of the liveness check: without a header, of
\* the admin or of the student; with a body that passes the validation or
\* one that fails it
ReceiveSample(r) ==
    DispatchFrom(r,
                 {"POST /api/instructors"} \X {NoId} \X
                     {[name |-> "Ana", email |-> <<"c">>, role |-> "admin"],
                      [name |-> "Ana"]},
                 {<<>>, <<"Bearer", 1>>, <<"Bearer", 4>>})

\* verifyToken: supabase.auth.getUser(token) resolves
VerifyToken(r) ==
    /\ reqs[r].pc = "getUser"
    /\ \E fail \in BOOLEAN :
         reqs' = [reqs EXCEPT ![r] =
                    verifyTokenResume(Called(@, "getUser"), getUser(@.token, fail))]
    /\ UNCHANGED <<identities, profiles, sessions, provisioned, nextUid, nextSid, served, courses, nextCid>>

\* requireAdmin: the profile select resolves
RequireAdmin(r) ==
    /\ reqs[r].pc = "requireAdmin"
    /\ \E fail \in BOOLEAN :
         reqs' = [reqs EXCEPT ![r] =
                    requireAdminResume(Called(@, "profiles.select"),
                                       selectRole(@.user, fail))]
    /\ UNCHANGED <<identities, profiles, sessions, provisioned, nextUid, nextSid, served, courses, nextCid>>

\* requireAdminOrInstructor: the profile select resolves
RequireAdminOrInstructor(r) ==
    /\ reqs[r].pc = "requireAdminOrInstructor"
    /\ \E fail \in BOOLEAN :
         reqs' = [reqs EXCEPT ![r] =
                    requireAdminOrInstructorResume(Called(@, "profiles.select"),
                                                   selectRole(@.user, fail))]
    /\ UNCHANGED <<identities, profiles, sessions, provisioned, nextUid, nextSid, served, courses, nextCid>>

\* the query of a read handler resolves
Select(r, pc) ==
    /\ reqs[r].pc = pc
    /\ \E fail \in BOOLEAN :
         reqs' = [reqs EXCEPT ![r] = selectResume(Called(@, pc), fail)]
    /\ UNCHANGED <<identities, profiles, sessions, provisioned, nextUid, nextSid, served, courses, nextCid>>

GetUsers(r) == Select(r, "users.select")

GetInstructors(r) == Select(r, "instructors.select")

GetCourses(r) == Select(r, "courses.select")

GetLiveSessions(r) == Select(r, "live_sessions.select")

\* POST /api/instructors, Step 1: supabase.auth.admin.createUser resolves
CreateUser(r) ==
    /\ reqs[r].pc = "createUser"
    /\ \E fail \in BOOLEAN :
         LET res == createUser(reqs[r].normalizedEmail, fail)
         IN  /\ reqs' = [reqs EXCEPT ![r] =
                           createUserResume(Called(@, "createUser"), res)]
             /\ identities' = IF res.error THEN identities
                              ELSE With(identities, res.user, reqs[r].normalizedEmail)
             /\ nextUid' = IF res.error THEN nextUid ELSE nextUid + 1
    /\ UNCHANGED <<profiles, sessions, provisioned, nextSid, served, courses, nextCid>>

\* POST /api/instructors, Step 2: the profile insert resolves
InsertProfile(r) ==
    /\ reqs[r].pc = "profiles.insert"
    /\ \E fail \in BOOLEAN :
         LET q     == reqs[r]
             error == fail \/ q.userId \in DOMAIN profiles
         IN  /\ reqs' = [reqs EXCEPT ![r] =
                           insertProfileResume(Called(@, "profiles.insert"), error)]
             /\ profiles' = IF error THEN profiles
                            ELSE With(profiles, q.userId, profileRow(q))
             /\ provisioned' = IF error THEN provisioned
                               ELSE provisioned \cup {q.userId}
    /\ UNCHANGED <<identities, sessions, nextUid, nextSid, served, courses, nextCid>>

\* POST /api/instructors, compensation: supabase.auth.admin.deleteUser settles
DeleteUser(r) ==
    /\ reqs[r].pc = "deleteUser"
    /\ \E outcome \in {"ok", "error", "raise"} :
         /\ reqs' = [reqs EXCEPT ![r] =
                       deleteUserResume(Called(@, "deleteUser"), outcome)]
         /\ identities' = IF outcome = "ok"
                          THEN Without(identities, reqs[r].deleteArg)
                          ELSE identities
    /\ UNCHANGED <<profiles, sessions, provisioned, nextUid, nextSid, served, courses, nextCid>>

\* POST /api/live-sessions: the insert resolves
InsertLiveSession(r) ==
    /\ reqs[r].pc = "live_sessions.insert"
    /\ \E fail \in BOOLEAN :
         LET q == reqs[r]
         IN  /\ reqs' = [reqs EXCEPT ![r] =
                           insertSessionResume(Called(@, "live_sessions.insert"), fail)]
             /\ sessions' = IF fail THEN sessions
                            ELSE With(sessions, nextSid,
                                      [title |-> q.body.title,
                                       course |-> q.body.course,
                                       start_time |-> q.body.start_time,
                                       status |-> IF TruthyStr(q.body, "status")
                                                  THEN q.body.status ELSE "upcoming",
                                       instructor_id |-> q.finalInstructorId])
             /\ nextSid' = IF fail THEN nextSid ELSE nextSid + 1
    /\ UNCHANGED <<identities, profiles, provisioned, nextUid, served, courses, nextCid>>

\* PUT /api/live-sessions/:id by an instructor: the ownership select resolves
PutOwner(r) ==
    /\ reqs[r].pc = "put.owner"
    /\ \E fail \in BOOLEAN :
         reqs' = [reqs EXCEPT ![r] =
                    putOwnerResume(Called(@, "live_sessions.select_owner"),
                                   selectOwner(@.id, fail))]
    /\ UNCHANGED <<identities, profiles, sessions, provisioned, nextUid, nextSid, served, courses, nextCid>>

\* PUT /api/live-sessions/:id: update(req.body).eq("id", id).select().single()
PutUpdate(r) ==
    /\ reqs[r].pc = "put.update"
    /\ \E fail \in BOOLEAN :
         LET q     == reqs[r]
             error == fail \/ q.id \notin DOMAIN sessions
         IN  /\ reqs' = [reqs EXCEPT ![r] =
                           putUpdateResume(Called(@, "live_sessions.update"), error)]
             /\ sessions' = IF error THEN sessions
                            ELSE [sessions EXCEPT ![q.id] = Merge(@, q.body)]
    /\ UNCHANGED <<identities, profiles, provisioned, nextUid, nextSid, served, courses, nextCid>>

\* DELETE /api/live-sessions/:id by an instructor: the ownership select resolves
DeleteOwner(r) ==
    /\ reqs[r].pc = "delete.owner"
    /\ \E fail \in BOOLEAN :
         reqs' = [reqs EXCEPT ![r] =
                    deleteOwnerResume(Called(@, "live_sessions.select_owner"),
                                      selectOwner(@.id, fail))]
    /\ UNCHANGED <<identities, profiles, sessions, provisioned, nextUid, nextSid, served, courses, nextCid>>

\* DELETE /api/live-sessions/:id: delete().eq("id", id) resolves
DeleteLiveSession(r) ==
    /\ reqs[r].pc = "delete.delete"
    /\ \E fail \in BOOLEAN :
         /\ reqs' = [reqs EXCEPT ![r] =
                       deleteResume(Called(@, "live_sessions.delete"), fail)]
         /\ sessions' = IF fail THEN sessions ELSE Without(sessions, reqs[r].id)
    /\ UNCHANGED <<identities, profiles, provisioned, nextUid, nextSid, served, courses, nextCid>>

\* a request to a course route, with any :id and body
ReceiveCourse(r) == Dispatch(r, CourseForms)

\* GET /api/courses/:id: the select of the one row resolves
GetCourse(r) ==
    /\ reqs[r].pc = "courses.select_one"
    /\ \E fail \in BOOLEAN :
         reqs' = [reqs EXCEPT ![r] =
                    courseGetResume(Called(@, "courses.select_one"),
                                    selectCourse(@.id, fail))]
    /\ UNCHANGED <<identities, profiles, sessions, provisioned, nextUid, nextSid,
                   courses, nextCid, served>>

\* POST /api/courses: the insert resolves
InsertCourse(r) ==
    /\ reqs[r].pc = "courses.insert"
    /\ \E fail \in BOOLEAN :
         LET res == insertCourse(courseRow(reqs[r].body), fail)
         IN  /\ reqs' = [reqs EXCEPT ![r] =
                           courseInsertResume(Called(@, "courses.insert"), res)]
             /\ courses' = IF fail THEN courses
                           ELSE With(courses, nextCid, res.data)
             /\ nextCid' = IF fail THEN nextCid ELSE nextCid + 1
    /\ UNCHANGED <<identities, profiles, sessions, provisioned, nextUid, nextSid,
                   served>>

\* PUT /api/courses/:id: the update resolves
UpdateCourse(r) ==
    /\ reqs[r].pc = "courses.update"
    /\ \E fail \in BOOLEAN :
         LET res == updateCourse(reqs[r].id, reqs[r].body, fail)
         IN  /\ reqs' = [reqs EXCEPT ![r] =
                           courseUpdateResume(Called(@, "courses.update"), res)]
             /\ courses' = IF res.code # NoField THEN courses
                           ELSE [courses EXCEPT ![reqs[r].id] = res.data]
    /\ UNCHANGED <<identities, profiles, sessions, provisioned, nextUid, nextSid,
                   nextCid, served>>

\* DELETE /api/courses/:id: the delete resolves
DeleteCourse(r) ==
    /\ reqs[r].pc = "courses.delete"
    /\ \E fail \in BOOLEAN :
         /\ reqs' = [reqs EXCEPT ![r] =
                       courseDeleteResume(Called(@, "courses.delete"), fail)]
         /\ courses' = IF fail THEN courses ELSE Without(courses, reqs[r].id)
    /\ UNCHANGED <<identities, profiles, sessions, provisioned, nextUid, nextSid,
                   nextCid, served>>

Next ==
    \E r \in Slots :
        \/ Receive(r)
        \/ VerifyToken(r)
        \/ RequireAdmin(r)
        \/ RequireAdminOrInstructor(r)
        \/ GetUsers(r)
        \/ GetInstructors(r)
        \/ GetCourses(r)
        \/ GetLiveSessions(r)
        \/ CreateUser(r)
        \/ InsertProfile(r)
        \/ DeleteUser(r)
        \/ InsertLiveSession(r)
        \/ PutOwner(r)
        \/ PutUpdate(r)
        \/ DeleteOwner(r)
        \/ DeleteLiveSession(r)

\* every route, requests interleaved at their awaits
Spec == Init /\ [][Next]_vars

\* the provisioning workflow: create-instructor requests with every body
NextProvisioning ==
    \E r \in Slots :
        \/ ReceiveProvisioning(r)
        \/ VerifyToken(r)
        \/ RequireAdmin(r)
        \/ CreateUser(r)
        \/ InsertProfile(r)
        \/ DeleteUser(r)

SpecProvisioning == Init /\ [][NextProvisioning]_vars

\* the pending remote call of the request in slot r settles and the event
\* loop runs the continuation awaiting it
Settle(r) ==
    \/ VerifyToken(r)
    \/ RequireAdmin(r)
    \/ CreateUser(r)
    \/ InsertProfile(r)
    \/ DeleteUser(r)

NextProvisioningSample == \E r \in Slots : ReceiveSample(r) \/ Settle(r)

\* the provisioning workflow when every remote call eventually returns or
\* raises
SpecProvisioningFair ==
    /\ Init
    /\ [][NextProvisioningSample]_vars
    /\ \A r \in Slots : WF_vars(Settle(r))

\* the live-session routes with every :id and body
NextLiveSessions ==
    \E r \in Slots :
        \/ ReceiveLiveSession(r)
        \/ VerifyToken(r)
        \/ RequireAdminOrInstructor(r)
        \/ GetLiveSessions(r)
        \/ InsertLiveSession(r)
        \/ PutOwner(r)
        \/ PutUpdate(r)
        \/ DeleteOwner(r)
        \/ DeleteLiveSession(r)

SpecLiveSessions == Init /\ [][NextLiveSessions]_vars

\* the admin-only routes of the second server file on one course
NextCourses ==
    \E r \in Slots :
        \/ ReceiveCourse(r)
        \/ VerifyToken(r)
        \/ RequireAdmin(r)
        \/ GetCourse(r)
        \/ InsertCourse(r)
        \/ UpdateCourse(r)
        \/ DeleteCourse(r)

SpecCourses == Init /\ [][NextCourses]_vars

\* a request of identity 1, 2 or 4 to an admin-only route or to an
\* admin-or-instructor route
ReceiveGated(r) ==
    DispatchFrom(r,
                 {"GET /api/users", "GET /api/live-sessions"} \X {NoId} \X {EmptyBody},
                 {<<"Bearer", 1>>, <<"Bearer", 2>>, <<"Bearer", 4>>})

Roles == {"admin", "instructor", "student"}

\* outside the gateway, the role of a profile row is changed in the data
\* service (a promotion or a demotion is committed)
SetRole(u, role) ==
    /\ u \in DOMAIN profiles
    /\ profiles[u].role # role
    /\ profiles' = [profiles EXCEPT ![u].role = role]
    /\ UNCHANGED <<identities, sessions, provisioned, nextUid, nextSid,
                   courses, nextCid, reqs, served>>

\* the role gates while roles change in the data service
NextRoles ==
    \/ \E r \in Slots :
          \/ ReceiveGated(r)
          \/ VerifyToken(r)
          \/ RequireAdmin(r)
          \/ RequireAdminOrInstructor(r)
          \/ GetUsers(r)
          \/ GetLiveSessions(r)
    \/ \E u \in {1, 2}, role \in Roles : SetRole(u, role)

SpecRoles == Init /\ [][NextRoles]_vars

(* ======================================================================= *)
(* Properties                                                              *)
(* ======================================================================= *)

\* the remote calls a request has made, in the order they took effect
Calls(q) == SelectSeq(q.trace, LAMBDA e : e # "respond")

\* the calls of the access checks; every other call is a handler's operation
CheckCalls == {"getUser", "profiles.select", "live_sessions.select_owner"}

GatedRoutes == AdminRoutes \cup LiveSessionRoutes

\* the allow-set of roles of a route's role gate
Allowed(route) ==
    IF route \in AdminRoutes THEN {"admin"} ELSE {"admin", "instructor"}

\* the ownership gate applies: a mutation of one live session by an instructor
OwnershipGated(q) ==
    /\ q.route \in {"PUT /api/live-sessions/:id", "DELETE /api/live-sessions/:id"}
    /\ q.userRole = "instructor"

Has(q, call) == \E i \in 1..Len(q.trace) : q.trace[i] = call

(* C1: on every non-health route the checks run in the order authenticate, *)
(* resolve role, role gate, ownership gate (where it applies), handler     *)
(* operation: the identity exchange is the first call and the profile      *)
(* lookup the second, the ownership lookup is the third exactly when the   *)
(* ownership gate applies, every later call was preceded by the checks     *)
(* before it having passed, and a request denied with 401 or 403 made no   *)
(* handler call.                                                           *)
C1_GateOrder ==
    \A r \in Slots :
        LET q == reqs[r]
            c == Calls(q)
        IN  q.route \in GatedRoutes =>
              /\ \A i \in 1..Len(c) :
                    /\ (c[i] = "getUser") <=> (i = 1)
                    /\ (c[i] = "profiles.select") <=> (i = 2)
                    /\ (c[i] = "live_sessions.select_owner")
                          <=> (i = 3 /\ OwnershipGated(q))
              /\ Len(c) >= 2 => q.user # NoId
              /\ Len(c) >= 3 =>
                    q.userRole = q.roleData /\ q.userRole \in Allowed(q.route)
              /\ (Len(c) >= 4 /\ OwnershipGated(q)) => q.ownerData = q.user
              /\ q.status \in {401, 403} => \A i \in 1..Len(c) : c[i] \in CheckCalls
              /\ q.status \in {200, 201, 400, 500} =>
                    /\ Len(c) >= 2
                    /\ q.user # NoId
                    /\ q.userRole \in Allowed(q.route)

\* an instructor's update went through all four stages and was answered 200
C1_Witness ==
    \E r \in Slots :
        /\ reqs[r].status = 200
        /\ Calls(reqs[r]) = <<"getUser", "profiles.select",
                              "live_sessions.select_owner", "live_sessions.update">>

(* C2: a request to a non-health route whose Authorization header is       *)
(* absent or not of the Bearer scheme is answered 401 without any remote   *)
(* call; one whose credential exchange errored or returned no identity is  *)
(* answered 401 with the exchange as its only call: no role lookup, no     *)
(* ownership lookup, no handler operation.                                 *)
C2_Unauthenticated ==
    \A r \in Slots :
        LET q == reqs[r]
        IN  q.route \in GatedRoutes =>
              /\ ~startsWithBearer(q.header) =>
                    q.status = 401 /\ q.trace = <<"respond">>
              /\ (q.user = NoId /\ Has(q, "getUser")) =>
                    q.status = 401 /\ q.trace = <<"getUser", "respond">>
              /\ (q.user = NoId /\ ~Has(q, "getUser") /\ startsWithBearer(q.header)) =>
                    q.pc = "getUser" /\ q.trace = <<>>

\* one request with a non-Bearer header and one whose exchange found no
\* identity, both answered 401
C2_Witness ==
    \E r1, r2 \in Slots :
        /\ reqs[r1].header = <<"Basic", 1>>
        /\ reqs[r1].status = 401
        /\ reqs[r2].header = <<"Bearer", 99>>
        /\ reqs[r2].trace = <<"getUser", "respond">>
        /\ reqs[r2].status = 401

(* C3: for an authenticated identity whose profile lookup found no row or  *)
(* errored, every role-gated route (admin-only and admin-or-instructor)    *)
(* answers 403 and the handler is not run.                                 *)
C3_NoProfileForbidden ==
    \A r \in Slots :
        LET q == reqs[r]
        IN  (/\ q.route \in GatedRoutes
             /\ q.user # NoId
             /\ Has(q, "profiles.select")
             /\ q.roleData = NoField) =>
                /\ q.status = 403
                /\ q.pc = "done"
                /\ q.trace = <<"getUser", "profiles.select", "respond">>

\* the identity without a profile row was denied on an admin-only route and
\* on an admin-or-instructor route
C3_Witness ==
    \E r1, r2 \in Slots :
        /\ reqs[r1].route \in AdminRoutes
        /\ reqs[r2].route \in LiveSessionRoutes
        /\ \A r \in {r1, r2} :
              /\ reqs[r].user = 5
              /\ reqs[r].user \notin DOMAIN profiles
              /\ reqs[r].status = 403

\* a PUT or DELETE of one live session by an identity resolved as instructor,
\* whose ownership read has resolved
InstructorMutation(q) ==
    /\ OwnershipGated(q)
    /\ Has(q, "live_sessions.select_owner")

WroteSession(q) ==
    Has(q, "live_sessions.update") \/ Has(q, "live_sessions.delete")

(* C4 as stated: for an instructor, a PUT or DELETE on a live session that *)
(* does not exist or that another identity owns is answered 403 and writes *)
(* nothing, and the same call by the owning instructor proceeds to the     *)
(* update/delete and answers 200.                                          *)
C4_OwnerAnswered200 ==
    \A r \in Slots :
        LET q == reqs[r]
        IN  (InstructorMutation(q) /\ q.pc = "done") =>
              IF q.ownerData = q.user
              THEN WroteSession(q) /\ q.status = 200
              ELSE q.status = 403 /\ ~WroteSession(q)

(* C4 amended: for an instructor, a PUT or DELETE on a live session whose  *)
(* ownership read finds no row or another owner is answered 403 and issues *)
(* no update or delete; when the read finds the caller as owner the        *)
(* update/delete is issued, and the answer is 200 unless the data service  *)
(* reports an error for that update/delete, which is answered 500.         *)
C4_OwnershipGate ==
    \A r \in Slots :
        LET q == reqs[r]
        IN  InstructorMutation(q) =>
              IF q.ownerData = q.user
              THEN /\ q.pc \in {"put.update", "delete.delete", "done"}
                   /\ q.pc = "done" =>
                        /\ WroteSession(q)
                        /\ q.status \in {200, 500}
                        /\ q.status = 500 => q.message = "queryError"
              ELSE /\ q.pc = "done"
                   /\ q.status = 403
                   /\ ~WroteSession(q)

\* instructor 2 deleted its own session (200) and instructor 3 was refused
\* on a session it does not own
C4_Witness ==
    \E r1, r2 \in Slots :
        /\ reqs[r1].route = "DELETE /api/live-sessions/:id"
        /\ reqs[r1].userRole = "instructor"
        /\ reqs[r1].ownerData = reqs[r1].user
        /\ reqs[r1].status = 200
        /\ reqs[r2].userRole = "instructor"
        /\ InstructorMutation(reqs[r2])
        /\ reqs[r2].ownerData # NoId
        /\ reqs[r2].ownerData # reqs[r2].user
        /\ reqs[r2].status = 403

(* C5: whenever an update or delete issued by an instructor's request is   *)
(* applied to a live session, that session's instructor_id at that moment  *)
(* equals the acting identity's id.                                        *)
C5_WriteOnlyByOwner ==
    [][\A r \in Slots :
          LET q == reqs[r]
          IN  (/\ q.userRole = "instructor"
               /\ q.pc \in {"put.update", "delete.delete"}
               /\ q.id \in DOMAIN sessions
               /\ reqs'[r].status = 200)
              => sessions[q.id].instructor_id = q.user]_vars

(* C6: for an identity resolved as admin, PUT and DELETE on a live session *)
(* make no ownership lookup and are never answered 403; the update/delete  *)
(* is issued for any session id whatever its instructor_id.                *)
C6_AdminBypassesOwnership ==
    \A r \in Slots :
        LET q == reqs[r]
        IN  (/\ q.route \in {"PUT /api/live-sessions/:id",
                             "DELETE /api/live-sessions/:id"}
             /\ q.userRole = "admin") =>
                /\ ~Has(q, "live_sessions.select_owner")
                /\ q.pc \in {"put.update", "delete.delete", "done"}
                /\ q.status # 403
                /\ q.pc = "done" => WroteSession(q)

\* the admin updated a session owned by instructor 2, without ownership read
C6_Witness ==
    \E r \in Slots :
        /\ reqs[r].route = "PUT /api/live-sessions/:id"
        /\ reqs[r].userRole = "admin"
        /\ reqs[r].id \in DOMAIN sessions
        /\ sessions[reqs[r].id].instructor_id # reqs[r].user
        /\ reqs[r].status = 200
        /\ Calls(reqs[r]) = <<"getUser", "profiles.select", "live_sessions.update">>

(* C7: in the create-instructor workflow, when the profile insert fails    *)
(* after the identity was created, a delete of exactly that identity is    *)
(* issued, and the error response is emitted only after that delete has    *)
(* settled: the delete is the call right before the response.              *)
C7_CompensateBeforeError ==
    \A r \in Slots :
        LET q == reqs[r]
            n == Len(q.trace)
        IN  (q.route = "POST /api/instructors" /\ q.profileError) =>
              /\ q.userId # NoId
              /\ q.deleteArg = q.userId
              /\ IF q.status = 0
                 THEN q.pc = "deleteUser" /\ ~Has(q, "deleteUser")
                 ELSE /\ q.status = 500
                      /\ n >= 3
                      /\ q.trace[n] = "respond"
                      /\ q.trace[n - 1] = "deleteUser"
                      /\ q.trace[n - 2] = "profiles.insert"

\* a create-instructor request whose insert failed has answered, after a
\* delete that removed the identity it had created
C7_Witness ==
    \E r \in Slots :
        /\ reqs[r].profileError
        /\ reqs[r].deleteResult = "ok"
        /\ reqs[r].status = 500
        /\ reqs[r].userId \notin DOMAIN identities

\* the request created an identity in Step 1
CreatedIdentity(q) == q.route = "POST /api/instructors" /\ q.userId # NoId

(* C8: once a create-instructor request has finished, no                   *)
(* identity it created exists without a profile row of the same id, for    *)
(* every outcome of the calls, failure of the compensating delete included.*)
C8_NoOrphanEver ==
    \A r \in Slots :
        LET q == reqs[r]
        IN  (CreatedIdentity(q) /\ q.pc = "done" /\ q.userId \in DOMAIN identities)
              => q.userId \in DOMAIN profiles

(* C9: when the profile insert fails and the compensating delete fails too *)
(* (returns an error or raises), the error reported to the caller is the   *)
(* profile-insert error, and the delete is attempted at most once.         *)
C9_OriginalErrorReported ==
    \A r \in Slots :
        LET q == reqs[r]
        IN  (/\ q.route = "POST /api/instructors"
             /\ q.profileError
             /\ q.deleteResult \in {"error", "raise"}
             /\ q.pc = "done") =>
                /\ q.status = 500
                /\ q.message = "profileError"
                /\ Cardinality({i \in 1..Len(q.trace) : q.trace[i] = "deleteUser"}) <= 1

(* C10: in every reachable state, every profile row written by the         *)
(* provisioning workflow has the id of an identity that exists in the      *)
(* identity service.                                                       *)
C10_ProfileHasIdentity ==
    \A id \in provisioned :
        /\ id \in DOMAIN profiles
        /\ id \in DOMAIN identities

\* the workflow has written a profile row while another request's
\* compensation has removed the identity that request created
C10_Witness ==
    /\ provisioned # {}
    /\ \E r \in Slots :
          /\ reqs[r].deleteResult = "ok"
          /\ reqs[r].userId \notin DOMAIN identities

\* number of times the request made the call
Count(q, call) == Cardinality({i \in 1..Len(q.trace) : q.trace[i] = call})

\* the ids of the identities that exist before any request
InitialIds == {u \in DOMAIN identities : u < 6}

(* C11: after a create-instructor request answered 201 there is exactly    *)
(* one new identity and one new profile row of that request: it made one   *)
(* createUser and one insert and no delete, the profile's id is the new    *)
(* identity's id (an id no other request got), its email is the identity's *)
(* email, its role is "instructor" whatever role the body carried, and the *)
(* userId of the response is that id.                                      *)
C11_CreatedPair ==
    \A r \in Slots :
        LET q == reqs[r]
        IN  (q.route = "POST /api/instructors" /\ q.status = 201) =>
              /\ Count(q, "createUser") = 1
              /\ Count(q, "profiles.insert") = 1
              /\ Count(q, "deleteUser") = 0
              /\ q.userId \notin InitialIds
              /\ q.userId \in DOMAIN identities
              /\ q.userId \in DOMAIN profiles
              /\ profiles[q.userId].email = identities[q.userId]
              /\ profiles[q.userId].role = "instructor"
              /\ profiles[q.userId].name = q.body.name
              /\ q.resUserId = q.userId
              /\ \A r2 \in Slots \ {r} : reqs[r2].userId # q.userId

\* a request whose body carried role "admin" was answered 201
C11_Witness ==
    \E r \in Slots :
        /\ reqs[r].status = 201
        /\ "role" \in DOMAIN reqs[r].body
        /\ reqs[r].body.role = "admin"
        /\ reqs[r].resUserId \in DOMAIN profiles

(* C12: a create-instructor request of an admin whose body lacks name or   *)
(* email is answered 400 having made no call besides the two access        *)
(* checks (no identity-service or data-service write); one whose           *)
(* createUser was rejected made no profile insert and no identity delete.  *)
C12_EarlyFailureNoWrites ==
    \A r \in Slots :
        LET q == reqs[r]
        IN  q.route = "POST /api/instructors" =>
              /\ (/\ q.userRole = "admin"
                  /\ (~TruthyStr(q.body, "name") \/ ~TruthySeq(q.body, "email"))) =>
                    /\ q.status = 400
                    /\ q.trace = <<"getUser", "profiles.select", "respond">>
              /\ q.status = 400 =>
                    Calls(q) = <<"getUser", "profiles.select">>
              /\ (Has(q, "createUser") /\ q.userId = NoId) =>
                    /\ q.pc = "done"
                    /\ Count(q, "profiles.insert") = 0
                    /\ Count(q, "deleteUser") = 0
                    /\ q.trace[Len(q.trace)] = "respond"
                    /\ q.trace[Len(q.trace) - 1] = "createUser"

\* one request was refused for its empty name, another had its createUser
\* rejected
C12_Witness ==
    \E r1, r2 \in Slots :
        /\ reqs[r1].status = 400
        /\ "name" \in DOMAIN reqs[r1].body /\ reqs[r1].body.name = ""
        /\ Has(reqs[r2], "createUser")
        /\ reqs[r2].userId = NoId
        /\ reqs[r2].pc = "done"

\* the email is registered to an identity
Registered(email) == \E i \in DOMAIN identities : identities[i] = email

(* C13: a createUser rejected because the normalized email already belongs *)
(* to an identity is answered 409.                                         *)
C13_DuplicateAnswered409 ==
    [][\A r \in Slots :
          (/\ reqs[r].pc = "createUser"
           /\ reqs'[r].pc = "done"
           /\ Registered(reqs[r].normalizedEmail)) => reqs'[r].status = 409]_vars

\* c is an upper-case letter and d the lower-case letter of the same rank
LowerOf(c, d) ==
    \E i \in 1..Len(UpperCase) : c = UpperCase[i] /\ d = LowerCase[i]

\* n is e lower-cased with its leading and trailing white space removed:
\* e is white space, then a part that neither begins nor ends with white
\* space, then white space, and n is that part with every upper-case letter
\* replaced by its lower-case letter and every other character kept
IsNormalized(n, e) ==
    \E i \in 1..(Len(e) + 1), j \in 0..Len(e) :
        /\ \A k \in 1..(i - 1) : e[k] \in WhiteSpace
        /\ \A k \in (j + 1)..Len(e) : e[k] \in WhiteSpace
        /\ i <= j => (e[i] \notin WhiteSpace /\ e[j] \notin WhiteSpace)
        /\ Len(n) = (IF i <= j THEN j - i + 1 ELSE 0)
        /\ \A k \in 1..Len(n) :
              /\ \A x \in 1..Len(UpperCase) : n[k] # UpperCase[x]
              /\ \/ LowerOf(e[i + k - 1], n[k])
                 \/ n[k] = e[i + k - 1]

(* C14: the email handed to the identity service and the email stored in   *)
(* the profile row are both the request's email lower-cased and trimmed    *)
(* of leading and trailing white space, hence identical.                   *)
C14_EmailNormalized ==
    \A r \in Slots :
        LET q == reqs[r]
        IN  q.route = "POST /api/instructors" =>
              /\ (q.userId # NoId /\ q.userId \in DOMAIN identities) =>
                    IsNormalized(identities[q.userId], q.body.email)
              /\ q.status = 201 =>
                    /\ IsNormalized(profiles[q.userId].email, q.body.email)
                    /\ profiles[q.userId].email = identities[q.userId]

\* the body's email, "Z9" between a tab and a line feed, was registered and
\* stored as "z9"
C14_Witness ==
    \E r \in Slots :
        /\ reqs[r].status = 201
        /\ reqs[r].body.email = <<"\t", "Z", "9", "\n">>
        /\ identities[reqs[r].userId] = <<"z", "9">>
        /\ profiles[reqs[r].userId].email = <<"z", "9">>

(* C15: every response with a non-2xx status carries both an error field   *)
(* and a message field.                                                    *)
C15_ErrorEnvelope ==
    \A r \in Slots :
        LET q == reqs[r]
        IN  (q.responses > 0 /\ q.status \notin {200, 201}) =>
              /\ q.error # NoField
              /\ q.message # NoField

(* C20: every live session row written by a request of an instructor (the  *)
(* insert of POST, the update of PUT with any body) has, once written,     *)
(* instructor_id equal to the id of that instructor.                       *)
C20_InstructorWritesOwnRows ==
    [][\A r \in Slots :
          LET q  == reqs[r]
              id == IF q.pc = "live_sessions.insert" THEN nextSid ELSE q.id
          IN  (/\ q.userRole = "instructor"
               /\ q.pc \in {"live_sessions.insert", "put.update"}
               /\ reqs'[r].status \in {200, 201}) =>
                 /\ id \in DOMAIN sessions'
                 /\ sessions'[id].instructor_id = q.user]_vars

\* the request has been received and not answered yet
InFlight(q) == q.pc \notin {"idle", "done"}

(* C16: when every remote call eventually returns or raises, every request *)
(* receives exactly one response: no request is ever answered twice, an    *)
(* unanswered request is still being processed, and every request in       *)
(* flight is eventually finished with one response sent (gate denial,      *)
(* error handler and compensation path included).                          *)
C16_ExactlyOneResponse ==
    /\ [](\A r \in Slots :
            /\ reqs[r].responses <= 1
            /\ reqs[r].pc = "done" => reqs[r].responses = 1
            /\ InFlight(reqs[r]) => reqs[r].responses = 0)
    /\ \A r \in Slots :
          InFlight(reqs[r]) ~> (reqs[r].pc = "done" /\ reqs[r].responses = 1)

\* answered once each: a request denied by the role gate, and a request
\* whose compensating delete raised into the error handler
C16_Witness ==
    \E r1, r2 \in Slots :
        /\ reqs[r1].status = 403 /\ reqs[r1].responses = 1
        /\ reqs[r2].deleteResult = "raise"
        /\ reqs[r2].status = 500 /\ reqs[r2].responses = 1

(* C17: GET /api/courses/:id of an admin for an id with no course row is   *)
(* answered 404 with the not-found body unless the data service failed     *)
(* otherwise; it is answered 500 only when the select failed with an       *)
(* error other than the no-row error, and 404 only when there is no row.   *)
C17_MissingCourse404 ==
    [][\A r \in Slots :
          (reqs[r].pc = "courses.select_one" /\ reqs'[r].pc = "done") =>
             LET q == reqs'[r]
             IN  /\ q.status \in {200, 404, 500}
                 /\ reqs[r].id \notin DOMAIN courses => q.status # 200
                 /\ q.status = 404 =>
                       /\ reqs[r].id \notin DOMAIN courses
                       /\ q.error = "Not Found"
                       /\ q.message = "Course not found"
                 /\ q.errorCode = "PGRST116" => q.status = 404
                 /\ q.status = 500 => q.errorCode = "other"]_vars

\* an admin's read of a course id without a row was answered 404
C17_Witness ==
    \E r \in Slots :
        /\ reqs[r].route = "GET /api/courses/:id"
        /\ reqs[r].roleData = "admin"
        /\ reqs[r].id \notin DOMAIN courses
        /\ reqs[r].status = 404

\* the columns of a course row that the caller's body does not name
GivenColumns == {"id", "title", "short_desc", "instructor_id", "status"}

(* C18: the insert of a POST /api/courses answered 201 stores one row,     *)
(* under a new id, that holds the body's title, short_desc and             *)
(* instructor_id, every other field of the body with the caller's value,   *)
(* and status "draft" when the body has no status and the caller's status  *)
(* when it has one, and the 201 body is that row; a GET /api/courses/:id   *)
(* answered 200 returns the row stored under that id, every column with    *)
(* the stored value and besides them only the embedded instructor: a read  *)
(* of the new id that follows the insert returns the inserted row.         *)
C18_InsertedCourse ==
    [][\A r \in Slots :
          LET q  == reqs[r]
              q2 == reqs'[r]
          IN  /\ (q.pc = "courses.insert" /\ q2.status = 201) =>
                  /\ nextCid \notin DOMAIN courses
                  /\ DOMAIN courses' = DOMAIN courses \cup {nextCid}
                  /\ \A c \in DOMAIN courses : courses'[c] = courses[c]
                  /\ courses'[nextCid] = q2.data
                  /\ q2.data.id = nextCid
                  /\ DOMAIN q2.data = DOMAIN q.body \cup GivenColumns
                  /\ \A f \in DOMAIN q.body : q2.data[f] = q.body[f]
                  /\ "status" \notin DOMAIN q.body => q2.data.status = "draft"
              /\ (q.pc = "courses.select_one" /\ q2.status = 200) =>
                  /\ q.id \in DOMAIN courses
                  /\ DOMAIN q2.data = DOMAIN courses[q.id] \cup {"profiles"}
                  /\ \A f \in DOMAIN courses[q.id] : q2.data[f] = courses[q.id][f]]_vars

\* a course posted with an empty status and one more field was stored, and
\* a read of its id returned the row
C18_Witness ==
    \E r1, r2 \in Slots :
        /\ reqs[r1].route = "POST /api/courses"
        /\ reqs[r1].status = 201
        /\ "level" \in DOMAIN reqs[r1].body
        /\ reqs[r2].route = "GET /api/courses/:id"
        /\ reqs[r2].status = 200
        /\ reqs[r2].id = reqs[r1].data.id
        /\ reqs[r2].data.level = reqs[r1].body.level
        /\ reqs[r2].data.status = ""

\* the role the data service holds for the identity, if it has a profile row
StoredRole(u) == IF u \in DOMAIN profiles THEN profiles[u].role ELSE NoField

(* C19: the role gate of a request decides on the role the data service    *)
(* holds when the request's lookup runs, hence on the new role for every   *)
(* request that starts after a role change was committed: if that role is  *)
(* not in the route's allow-set the request is denied 403 (an identity     *)
(* demoted from admin is denied on an admin-only route), and a request     *)
(* that passes the gate carries exactly that role.                         *)
C19_RoleReadPerRequest ==
    [][\A r \in Slots :
          (/\ reqs[r].pc \in {"requireAdmin", "requireAdminOrInstructor"}
           /\ reqs'[r].pc # reqs[r].pc) =>
             LET role  == StoredRole(reqs[r].user)
                 allow == IF reqs[r].pc = "requireAdmin" THEN {"admin"}
                          ELSE {"admin", "instructor"}
             IN  /\ role \notin allow => reqs'[r].status = 403
                 /\ reqs'[r].status # 403 =>
                       /\ role \in allow
                       /\ reqs'[r].userRole = role]_vars

\* identity 1, admin at start-up, was served on the admin-only route, was
\* demoted, and its next request to that route was denied
C19_Witness ==
    \E r1, r2 \in Slots :
        /\ reqs[r1].route = "GET /api/users" /\ reqs[r1].user = 1
        /\ reqs[r1].status = 200
        /\ reqs[r2].route = "GET /api/users" /\ reqs[r2].user = 1
        /\ reqs[r2].status = 403
        /\ reqs[r2].roleData = "student"
        /\ profiles[1].role = "student"

(* C21: createUser and the profile insert of a create-instructor request   *)
(* are only ever invoked with a non-empty normalized email, and a request  *)
(* of an admin whose email is empty or only white space is answered 400    *)
(* before createUser.                                                      *)
C21_NonEmptyNormalizedEmail ==
    \A r \in Slots :
        LET q == reqs[r]
        IN  q.route = "POST /api/instructors" =>
              /\ (\/ q.pc = "createUser"
                  \/ Has(q, "createUser")
                  \/ Has(q, "profiles.insert")) => q.normalizedEmail # <<>>
              /\ (/\ q.userRole = "admin"
                  /\ "email" \in DOMAIN q.body
                  /\ \A i \in 1..Len(q.body.email) : q.body.email[i] \in WhiteSpace) =>
                    q.status = 400 /\ ~Has(q, "createUser")
====
